---- MODULE Spec2Model ----
(***************************************************************************)
(* DBFZ Raid Enabler: the byte-pattern scanner, the patch engine and the   *)
(* lifecycle of the executables (original, patched copy, Linux backup),    *)
(* the launchers and the log directory.                                    *)
(*                                                                         *)
(* A file is a record [exists, data]; data is the sequence of its bytes    *)
(* (naturals 0..255).  Offsets into a buffer are 0-based as in the code;   *)
(* TLA+ sequences are 1-based, so byte i of buf is buf[i + 1].             *)
(***************************************************************************)
EXTENDS Integers, Sequences, FiniteSets, TLC

VARIABLES
    platform,     \* "win32" or "linux": utils/platform.py IS_WINDOWS / IS_LINUX
    pristine,     \* history: the bytes RED-Win64-Shipping.exe had at the start
                  \* (none when the file was absent)
    original,     \* the file RED-Win64-Shipping.exe (paths['clean_exe'])
    installed,    \* the file paths['patched_exe']
    backup,       \* the file RED-Win64-Shipping.exe.backup
    launchers,    \* the launcher files in game_root: a set of [raid, ext]
    logDir,       \* whether ~/.dbfz_raid_enabler exists
    logHandler,   \* whether the logger holds an open handler on a file in logDir
    handlers,     \* logger.handlers: the kinds of the logger's handlers, in order
    ret,          \* what the last operation returned or raised
    detected,     \* what detect_current_patch returned since the last operation
    faults,       \* how many system calls have failed so far
    scanBuf,      \* scanner specification: the buffer under scan
    scanOut       \* scanner specification: the result of the last scanner call

vars == <<platform, pristine, original, installed, backup, launchers, logDir,
          logHandler, handlers, ret, detected, faults, scanBuf, scanOut>>

lifecycleVars == <<platform, pristine, original, installed, backup, launchers,
                   logDir, logHandler, handlers, ret, detected, faults>>

scanVars == <<scanBuf, scanOut>>

----------------------------------------------------------------------------
(* Program constants *)

pattern_start == 184

pattern_end == 144

MinRaid == 1

MaxRaid == 38

----------------------------------------------------------------------------
(* Bounds of the model *)

\* the longest buffer of which every byte string over ScanBytes is scanned
ScanMaxLen == 6

\* the most segments a segment-built buffer is made of
MaxSegs == 2

\* the most system calls that fail in one behaviour
MaxFaults == 1

\* the bytes the exhaustive scanner buffers are made of
ScanBytes == {0, 5, pattern_end, pattern_start}

\* the raid indexes the operations are called with (1..38 in the program)
RaidInputs == {5, MaxRaid}

\* the most handlers the logger has
MaxHandlers == 2

----------------------------------------------------------------------------
(* Optional[int]: None is the empty sequence, a value v is <<v>> *)

None == <<>>

Some(v) == <<v>>

----------------------------------------------------------------------------
(* The scanner *)

\* exe_data[i], 0-based
ByteAt(exe_data, i) == exe_data[i + 1]

\* a loop bound one too small: range(len(exe_data) - 6)
ScanLimitShort(exe_data) == Len(exe_data) - 6

\* range(len(exe_data) - 5): the offsets 0 .. ScanLimit - 1 are visited
ScanLimit(exe_data) == Len(exe_data) - 5

\* a test of the first marker only
MatchAtStartOnly(exe_data, i) == ByteAt(exe_data, i) = pattern_start

\* a test of the second marker only
MatchAtEndOnly(exe_data, i) == ByteAt(exe_data, i + 5) = pattern_end

\* exe_data[i] == pattern_start and exe_data[i + 5] == pattern_end
MatchAt(exe_data, i) ==
    /\ ByteAt(exe_data, i) = pattern_start
    /\ ByteAt(exe_data, i + 5) = pattern_end

\* exe_data[i + 1:i + 5]
raid_bytes(exe_data, i) == SubSeq(exe_data, i + 2, i + 5)

\* int.from_bytes(raid_bytes, byteorder='big')
int_from_bytes_big(bs) ==
    [lo |-> bs[4] + 256 * bs[3], hi |-> bs[2] + 256 * bs[1]]

\* int.from_bytes(raid_bytes, byteorder='little'): an unsigned 32-bit value,
\* kept as two 16-bit limbs [lo, hi] (value = lo + 65536 * hi) because the
\* model checker's integers are signed 32-bit.
int_from_bytes(bs) ==
    [lo |-> bs[1] + 256 * bs[2], hi |-> bs[3] + 256 * bs[4]]

\* the unsigned 32-bit value of a small natural
U32(v) == [lo |-> v % 65536, hi |-> v \div 65536]

\* a range test of the low byte only
ValidRaidLowByte(x) == MinRaid <= x.lo % 256 /\ x.lo % 256 <= MaxRaid

\* a range test that excludes the upper bound: 1 <= raid_index < 38
ValidRaidBelowMax(x) == x.hi = 0 /\ MinRaid <= x.lo /\ x.lo < MaxRaid

\* 1 <= raid_index <= 38
ValidRaid(x) == x.hi = 0 /\ MinRaid <= x.lo /\ x.lo <= MaxRaid

\* decodeValue(buffer, site)
decodeValue(exe_data, i) == int_from_bytes(raid_bytes(exe_data, i))

\* a loop that stops at the first match, valid or not
RECURSIVE DetectFromFirstMatch(_, _)
DetectFromFirstMatch(exe_data, i) ==
    IF i >= ScanLimit(exe_data) THEN None
    ELSE IF MatchAt(exe_data, i)
         THEN IF ValidRaid(decodeValue(exe_data, i))
              THEN Some(decodeValue(exe_data, i).lo)
              ELSE None
         ELSE DetectFromFirstMatch(exe_data, i + 1)

\* the loop of detect_current_patch from offset i on: the first match whose
\* operand is a valid raid index is returned, None when the loop runs out
RECURSIVE DetectFrom(_, _)
DetectFrom(exe_data, i) ==
    IF i >= ScanLimit(exe_data) THEN None
    ELSE IF MatchAt(exe_data, i) /\ ValidRaid(decodeValue(exe_data, i))
         THEN Some(decodeValue(exe_data, i).lo)
         ELSE DetectFrom(exe_data, i + 1)

\* the scan of a buffer that was read
detect_scan(exe_data) == DetectFrom(exe_data, 0)

\* findSites: every offset of the same loop at which the markers match, in
\* the order the loop visits them
RECURSIVE ScanFrom(_, _)
ScanFrom(buffer, i) ==
    IF i >= ScanLimit(buffer) THEN <<>>
    ELSE IF MatchAt(buffer, i)
         THEN <<i>> \o ScanFrom(buffer, i + 1)
         ELSE ScanFrom(buffer, i + 1)

findSites(buffer) == ScanFrom(buffer, 0)

\* newValue as 5 bytes, least significant first
to_bytes_little5(v) ==
    <<v % 256, (v \div 256) % 256, (v \div 65536) % 256, (v \div 16777216) % 256, 0>>

\* newValue as 4 bytes, least significant first
to_bytes_little(v) ==
    <<v % 256, (v \div 256) % 256, (v \div 65536) % 256, (v \div 16777216) % 256>>

\* a write that starts at the marker instead of after it
writeSiteAtMarker(buffer, site, v) ==
    SubSeq(buffer, 1, site) \o to_bytes_little(v)
        \o SubSeq(buffer, site + 5, Len(buffer))

\* a write of 6 bytes: the 4 bytes of v and two zero bytes, site+1 .. site+6
writeSiteSixBytes(buffer, site, v) ==
    SubSeq(buffer, 1, site + 1) \o to_bytes_little(v) \o <<0, 0>>
        \o SubSeq(buffer, site + 8, Len(buffer))

\* a write one byte too far: bytes site+2 .. site+5, over the second marker
writeSiteOverEndMarker(buffer, site, v) ==
    SubSeq(buffer, 1, site + 2) \o to_bytes_little(v)
        \o SubSeq(buffer, site + 7, Len(buffer))

\* writeSite: bytes site+1 .. site+4 of the buffer become the 4 bytes of v
writeSite(buffer, site, v) ==
    SubSeq(buffer, 1, site + 1) \o to_bytes_little(v)
        \o SubSeq(buffer, site + 6, Len(buffer))

\* writeSite at every site of the list, in order, on the in-memory copy
RECURSIVE writeAll(_, _, _)
writeAll(buffer, sites, v) ==
    IF sites = <<>> THEN buffer
    ELSE writeAll(writeSite(buffer, Head(sites), v), Tail(sites), v)

----------------------------------------------------------------------------
(* Files and the file system calls *)

NoFile == [exists |-> FALSE, data |-> <<>>]

File(d) == [exists |-> TRUE, data |-> d]

\* the file system the operations act on; faults counts the system calls
\* that have failed without the state of the files forcing them to
FS == [platform |-> platform, original |-> original, installed |-> installed,
       backup |-> backup, launchers |-> launchers, logDir |-> logDir,
       logHandler |-> logHandler, handlers |-> handlers, faults |-> faults]

\* how many bytes of the data a write that fails part-way may have written
PartialCuts(d) == {0, Len(d) \div 2, Len(d)}

\* what a failed write of data d leaves at a destination holding dst: the
\* destination as it was (the failure came before it was opened), or a prefix
\* of d (it was opened for writing, which truncates it, and the failure came
\* while writing or, with all of d written, after)
FailedWrite(d, dst) ==
    {dst} \cup {File(SubSeq(d, 1, k)) : k \in PartialCuts(d)}

\* shutil.copy2(src, dst) (and cp in the launch script): the outcomes
\* [ok, dst, fault]; ok = FALSE is the exception (the non-zero exit status)
copy2(src, dst) ==
    IF ~src.exists
    THEN {[ok |-> FALSE, dst |-> dst, fault |-> 0]}
    ELSE {[ok |-> TRUE, dst |-> File(src.data), fault |-> 0]}
         \cup {[ok |-> FALSE, dst |-> f, fault |-> 1]
                 : f \in FailedWrite(src.data, dst)}

\* the outcomes of a step that stay within the faults the model allows
Within(outcomes) == {o \in outcomes : o.fs.faults <= MaxFaults}

\* Path.unlink() of an existing file: the outcomes [ok, file, fault]
unlink(f) ==
    {[ok |-> TRUE, file |-> NoFile, fault |-> 0],
     [ok |-> FALSE, file |-> f, fault |-> 1]}

----------------------------------------------------------------------------
(* BackupManager: each operation is the set of its outcomes [fs, ret] *)

\* a verify_clean_exe that returns True whether the file exists or not
verify_clean_exe_NeverRaises(fs) ==
    {[fs |-> fs, ret |-> [op |-> "verify", raised |-> FALSE]]}

\* verify_clean_exe(clean_exe): raises BackupError when the file is absent
verify_clean_exe(fs) ==
    IF ~fs.original.exists
    THEN {[fs |-> fs, ret |-> [op |-> "verify", raised |-> TRUE]]}
    ELSE {[fs |-> fs, ret |-> [op |-> "verify", raised |-> FALSE]]}

\* a create_or_update_patched_exe that removes the old patched exe before it
\* verifies the original
create_or_update_patched_exe_DeletesFirst(fs) ==
    LET olds == IF fs.installed.exists
                THEN unlink(fs.installed)
                ELSE {[ok |-> TRUE, file |-> fs.installed, fault |-> 0]}
    IN  UNION {
          IF ~fs.original.exists
          THEN {[fs |-> [fs EXCEPT !.installed = u.file,
                                   !.faults = @ + u.fault],
                 ret |-> [op |-> "materialize", raised |-> TRUE,
                          unlink_failed |-> ~u.ok]]}
          ELSE {[fs |-> [fs EXCEPT !.installed = c.dst,
                                   !.faults = @ + u.fault + c.fault],
                 ret |-> [op |-> "materialize", raised |-> ~c.ok,
                          unlink_failed |-> ~u.ok]]
                  : c \in copy2(fs.original, u.file)}
          : u \in olds}

\* a create_or_update_patched_exe that logs a failed copy and returns the path
create_or_update_patched_exe_IgnoresCopyError(fs) ==
    IF ~fs.original.exists
    THEN {[fs |-> fs,
           ret |-> [op |-> "materialize", raised |-> TRUE,
                    unlink_failed |-> FALSE]]}
    ELSE LET olds == IF fs.installed.exists
                     THEN unlink(fs.installed)
                     ELSE {[ok |-> TRUE, file |-> fs.installed, fault |-> 0]}
         IN  UNION {
               {[fs |-> [fs EXCEPT !.installed = c.dst,
                                   !.faults = @ + u.fault + c.fault],
                 ret |-> [op |-> "materialize", raised |-> FALSE,
                          unlink_failed |-> ~u.ok]]
                  : c \in copy2(fs.original, u.file)}
               : u \in olds}

\* create_or_update_patched_exe(clean_exe, patched_exe) that keeps a patched
\* exe it finds instead of replacing it by a fresh copy
create_or_update_patched_exe_KeepExisting(fs) ==
    IF ~fs.original.exists
    THEN {[fs |-> fs,
           ret |-> [op |-> "materialize", raised |-> TRUE,
                    unlink_failed |-> FALSE]]}
    ELSE IF fs.installed.exists
    THEN {[fs |-> fs,
           ret |-> [op |-> "materialize", raised |-> FALSE,
                    unlink_failed |-> FALSE]]}
    ELSE {[fs |-> [fs EXCEPT !.installed = c.dst, !.faults = @ + c.fault],
           ret |-> [op |-> "materialize", raised |-> ~c.ok,
                    unlink_failed |-> FALSE]]
            : c \in copy2(fs.original, fs.installed)}

\* create_or_update_patched_exe(clean_exe, patched_exe)
create_or_update_patched_exe(fs) ==
    IF ~fs.original.exists
    THEN {[fs |-> fs,
           ret |-> [op |-> "materialize", raised |-> TRUE,
                    unlink_failed |-> FALSE]]}
    ELSE LET olds == IF fs.installed.exists
                     THEN unlink(fs.installed)
                     ELSE {[ok |-> TRUE, file |-> fs.installed, fault |-> 0]}
         IN  UNION {
               {[fs |-> [fs EXCEPT !.installed = c.dst,
                                   !.faults = @ + u.fault + c.fault],
                 ret |-> [op |-> "materialize", raised |-> ~c.ok,
                          unlink_failed |-> ~u.ok]]
                  : c \in copy2(fs.original, u.file)}
               : u \in olds}

NotRun == [ran |-> FALSE, exists |-> FALSE, read_failed |-> FALSE, val |-> None]

\* detect_current_patch(patched_exe): the outcomes [fs, detected]
detect_current_patch(fs) ==
    IF ~fs.installed.exists
    THEN {[fs |-> fs,
           detected |-> [ran |-> TRUE, exists |-> FALSE, read_failed |-> FALSE,
                         val |-> None]]}
    ELSE {[fs |-> fs,
           detected |-> [ran |-> TRUE, exists |-> TRUE, read_failed |-> FALSE,
                         val |-> detect_scan(fs.installed.data)]],
          [fs |-> [fs EXCEPT !.faults = @ + 1],
           detected |-> [ran |-> TRUE, exists |-> TRUE, read_failed |-> TRUE,
                         val |-> None]]}

\* an install that backs the original up whether a backup exists or not
install_patched_exe_linux_AlwaysBackup(fs) ==
    IF fs.platform # "linux"
    THEN {[fs |-> fs, ret |-> [op |-> "install", value |-> FALSE]]}
    ELSE LET bks == IF fs.original.exists
                    THEN copy2(fs.original, fs.backup)
                    ELSE {[ok |-> TRUE, dst |-> fs.backup, fault |-> 0]}
         IN  UNION {
               IF ~b.ok
               THEN {[fs |-> [fs EXCEPT !.backup = b.dst,
                                        !.faults = @ + b.fault],
                      ret |-> [op |-> "install", value |-> FALSE]]}
               ELSE {[fs |-> [fs EXCEPT !.backup = b.dst, !.original = c.dst,
                                        !.faults = @ + c.fault],
                      ret |-> [op |-> "install", value |-> c.ok]]
                       : c \in copy2(fs.installed, fs.original)}
               : b \in bks}

\* install_patched_exe_linux(patched_exe)
install_patched_exe_linux(fs) ==
    IF fs.platform # "linux"
    THEN {[fs |-> fs, ret |-> [op |-> "install", value |-> FALSE]]}
    ELSE LET bks == IF fs.original.exists /\ ~fs.backup.exists
                    THEN copy2(fs.original, fs.backup)
                    ELSE {[ok |-> TRUE, dst |-> fs.backup, fault |-> 0]}
         IN  UNION {
               IF ~b.ok
               THEN {[fs |-> [fs EXCEPT !.backup = b.dst,
                                        !.faults = @ + b.fault],
                      ret |-> [op |-> "install", value |-> FALSE]]}
               ELSE {[fs |-> [fs EXCEPT !.backup = b.dst, !.original = c.dst,
                                        !.faults = @ + c.fault],
                      ret |-> [op |-> "install", value |-> c.ok]]
                       : c \in copy2(fs.installed, fs.original)}
               : b \in bks}

----------------------------------------------------------------------------
(* BinaryPatcher.patch_executable(patched_exe, raid_index): apply *)

\* an apply that writes each site to the file as it goes: a failure leaves
\* the sites written so far
patch_executable_WritesInPlace(fs, v) ==
    IF ~fs.installed.exists
    THEN {[fs |-> fs,
           ret |-> [op |-> "apply", raid |-> v, raised |-> TRUE,
                    success |-> FALSE, offsets |-> <<>>, errors |-> <<>>]]}
    ELSE LET buffer == fs.installed.data
             sites == findSites(buffer)
             copy == writeAll(buffer, sites, v)
         IN  {[fs |-> [fs EXCEPT !.faults = @ + 1],
               ret |-> [op |-> "apply", raid |-> v, raised |-> TRUE,
                        success |-> FALSE, offsets |-> <<>>, errors |-> <<>>]]}
             \cup
             IF sites = <<>>
             THEN {[fs |-> fs,
                    ret |-> [op |-> "apply", raid |-> v, raised |-> FALSE,
                             success |-> FALSE, offsets |-> <<>>,
                             errors |-> <<"no patch locations found">>]]}
             ELSE {[fs |-> [fs EXCEPT !.installed = File(copy)],
                    ret |-> [op |-> "apply", raid |-> v, raised |-> FALSE,
                             success |-> TRUE, offsets |-> sites,
                             errors |-> <<>>]]}
                  \cup
                  {[fs |-> [fs EXCEPT
                              !.installed =
                                  File(writeAll(buffer, SubSeq(sites, 1, k), v)),
                              !.faults = @ + 1],
                    ret |-> [op |-> "apply", raid |-> v, raised |-> FALSE,
                             success |-> FALSE, offsets |-> sites,
                             errors |-> <<"io error">>]]
                     : k \in 0..(Len(sites) - 1)}

\* an apply that reports success whenever it found a site, persisted or not
patch_executable_IgnoresPersistFailure(fs, v) ==
    IF ~fs.installed.exists
    THEN {[fs |-> fs,
           ret |-> [op |-> "apply", raid |-> v, raised |-> TRUE,
                    success |-> FALSE, offsets |-> <<>>, errors |-> <<>>]]}
    ELSE LET buffer == fs.installed.data
             sites == findSites(buffer)
             copy == writeAll(buffer, sites, v)
         IN  {[fs |-> [fs EXCEPT !.faults = @ + 1],
               ret |-> [op |-> "apply", raid |-> v, raised |-> TRUE,
                        success |-> FALSE, offsets |-> <<>>, errors |-> <<>>]]}
             \cup
             IF sites = <<>>
             THEN {[fs |-> fs,
                    ret |-> [op |-> "apply", raid |-> v, raised |-> FALSE,
                             success |-> FALSE, offsets |-> <<>>,
                             errors |-> <<"no patch locations found">>]]}
             ELSE {[fs |-> [fs EXCEPT !.installed = File(copy)],
                    ret |-> [op |-> "apply", raid |-> v, raised |-> FALSE,
                             success |-> TRUE, offsets |-> sites,
                             errors |-> <<>>]]}
                  \cup
                  {[fs |-> [fs EXCEPT !.installed = f, !.faults = @ + 1],
                    ret |-> [op |-> "apply", raid |-> v, raised |-> FALSE,
                             success |-> TRUE, offsets |-> sites,
                             errors |-> <<"io error">>]]
                     : f \in FailedWrite(copy, fs.installed)}

\* the outcomes [fs, ret]; ret.raised is the IoError of an unreadable file
patch_executable(fs, v) ==
    IF ~fs.installed.exists
    THEN {[fs |-> fs,
           ret |-> [op |-> "apply", raid |-> v, raised |-> TRUE,
                    success |-> FALSE, offsets |-> <<>>, errors |-> <<>>]]}
    ELSE LET buffer == fs.installed.data
             sites == findSites(buffer)
             copy == writeAll(buffer, sites, v)
         IN  {[fs |-> [fs EXCEPT !.faults = @ + 1],
               ret |-> [op |-> "apply", raid |-> v, raised |-> TRUE,
                        success |-> FALSE, offsets |-> <<>>, errors |-> <<>>]]}
             \cup
             IF sites = <<>>
             THEN {[fs |-> fs,
                    ret |-> [op |-> "apply", raid |-> v, raised |-> FALSE,
                             success |-> FALSE, offsets |-> <<>>,
                             errors |-> <<"no patch locations found">>]]}
             ELSE {[fs |-> [fs EXCEPT !.installed = File(copy)],
                    ret |-> [op |-> "apply", raid |-> v, raised |-> FALSE,
                             success |-> TRUE, offsets |-> sites,
                             errors |-> <<>>]]}
                  \cup
                  {[fs |-> [fs EXCEPT !.installed = f, !.faults = @ + 1],
                    ret |-> [op |-> "apply", raid |-> v, raised |-> FALSE,
                             success |-> FALSE, offsets |-> sites,
                             errors |-> <<"io error">>]]
                     : f \in FailedWrite(copy, fs.installed)}

----------------------------------------------------------------------------
(* BackupManager.cleanup_all(patched_exe, game_root) *)

\* a pattern that is the Windows one on every platform
get_shortcut_extension_LnkOnly(plat) == "lnk"

\* get_shortcut_extension() / get_shortcut_glob_pattern(): the extension of
\* the "DBFZ Raid *" files the platform's pattern matches
get_shortcut_extension(plat) == IF plat = "win32" THEN "lnk" ELSE "sh"

\* the results dictionary at the start
NoResults == [patched_exe_removed |-> FALSE, original_restored |-> FALSE,
              shortcuts_removed |-> 0, logs_removed |-> FALSE, errors |-> <<>>]

\* a sequence of n copies of the error message e
RECURSIVE Times(_, _)
Times(e, n) == IF n = 0 THEN <<>> ELSE <<e>> \o Times(e, n - 1)

\* a removal of the patched exe without the exists() test: the unlink of a
\* missing file raises
CleanupPatchedExe_NoExistsCheck(cs) ==
    IF cs.fs.installed.exists
    THEN {IF u.ok
          THEN [fs |-> [cs.fs EXCEPT !.installed = u.file],
                results |-> [cs.results EXCEPT !.patched_exe_removed = TRUE]]
          ELSE [fs |-> [cs.fs EXCEPT !.faults = @ + u.fault],
                results |-> [cs.results EXCEPT
                    !.errors = @ \o <<"Failed to remove patched exe">>]]
            : u \in unlink(cs.fs.installed)}
    ELSE {[fs |-> cs.fs,
           results |-> [cs.results EXCEPT
               !.errors = @ \o <<"Failed to remove patched exe">>]]}

\* remove the patched exe
CleanupPatchedExe(cs) ==
    IF cs.fs.installed.exists
    THEN {IF u.ok
          THEN [fs |-> [cs.fs EXCEPT !.installed = u.file],
                results |-> [cs.results EXCEPT !.patched_exe_removed = TRUE]]
          ELSE [fs |-> [cs.fs EXCEPT !.faults = @ + u.fault],
                results |-> [cs.results EXCEPT
                    !.errors = @ \o <<"Failed to remove patched exe">>]]
            : u \in unlink(cs.fs.installed)}
    ELSE {cs}

\* a restore that leaves the backup file in place
CleanupRestore_KeepsBackup(cs) ==
    IF cs.fs.platform = "linux" /\ cs.fs.backup.exists
    THEN {IF ~c.ok
          THEN [fs |-> [cs.fs EXCEPT !.original = c.dst,
                                     !.faults = @ + c.fault],
                results |-> [cs.results EXCEPT
                    !.errors = @ \o <<"Failed to restore original exe">>]]
          ELSE [fs |-> [cs.fs EXCEPT !.original = c.dst],
                results |-> [cs.results EXCEPT !.original_restored = TRUE]]
            : c \in copy2(cs.fs.backup, cs.fs.original)}
    ELSE {cs}

\* on Linux, restore the original exe from the backup if it exists
CleanupRestore(cs) ==
    IF cs.fs.platform = "linux" /\ cs.fs.backup.exists
    THEN UNION {
           IF ~c.ok
           THEN {[fs |-> [cs.fs EXCEPT !.original = c.dst,
                                       !.faults = @ + c.fault],
                  results |-> [cs.results EXCEPT
                      !.errors = @ \o <<"Failed to restore original exe">>]]}
           ELSE {IF u.ok
                 THEN [fs |-> [cs.fs EXCEPT !.original = c.dst,
                                            !.backup = u.file],
                       results |-> [cs.results EXCEPT
                                       !.original_restored = TRUE]]
                 ELSE [fs |-> [cs.fs EXCEPT !.original = c.dst,
                                            !.faults = @ + u.fault],
                       results |-> [cs.results EXCEPT
                           !.errors = @ \o <<"Failed to restore original exe">>]]
                   : u \in unlink(cs.fs.backup)}
           : c \in copy2(cs.fs.backup, cs.fs.original)}
    ELSE {cs}

\* remove all shortcuts in the game root folder: the glob may fail; each
\* unlink may fail (the set failed)
CleanupShortcuts(cs) ==
    LET found == {l \in cs.fs.launchers :
                    l.ext = get_shortcut_extension(cs.fs.platform)}
    IN  {[fs |-> [cs.fs EXCEPT !.faults = @ + 1],
          results |-> [cs.results EXCEPT
              !.errors = @ \o <<"Error scanning for shortcuts">>]]}
        \cup
        {[fs |-> [cs.fs EXCEPT !.launchers = @ \ (found \ failed),
                               !.faults = @ + Cardinality(failed)],
          results |-> [cs.results EXCEPT
              !.shortcuts_removed = @ + Cardinality(found \ failed),
              !.errors = @ \o Times("Failed to remove shortcut",
                                    Cardinality(failed))]]
           : failed \in SUBSET found}

\* the kinds of handlers the code tells apart: a handler with a baseFilename
\* inside the log directory, one with a baseFilename elsewhere, one without
HandlerKinds == {"file_in_log_dir", "file_elsewhere", "stream"}

\* the handlers a logger with a log file has when the program starts
DefaultHandlers == <<"file_in_log_dir">>

\* the handlers of the list (by position) whose file is in the log directory
InLogDir(hs) == {k \in 1..Len(hs) : hs[k] = "file_in_log_dir"}

\* the handlers left on the logger: those whose file is not in the directory
KeptHandlers(hs) == SelectSeq(hs, LAMBDA kind : kind # "file_in_log_dir")

\* an event of step (d): a call on handler h, or (h = 0) a log record written
\* through the handlers to, or the rmtree of the directory
LogEvent(e, h, to) == [e |-> e, h |-> h, to |-> to]

\* logger.debug / info / error while the handlers attached are on the logger
Emit(attached) == <<LogEvent("emit", 0, attached)>>

\* a loop that logs between the close of a handler and its removal
RECURSIVE close_log_handlers_LogsAfterClose(_, _, _)
close_log_handlers_LogsAfterClose(hs, k, attached) ==
    IF k > Len(hs) THEN <<>>
    ELSE IF hs[k] = "file_in_log_dir"
         THEN <<LogEvent("flush", k, {}), LogEvent("close", k, {})>>
                  \o Emit(attached)
                  \o <<LogEvent("removeHandler", k, {})>>
                  \o close_log_handlers_LogsAfterClose(hs, k + 1, attached \ {k})
         ELSE close_log_handlers_LogsAfterClose(hs, k + 1, attached)

\* the loop over logger.handlers[:] from handler k on: a handler whose file is
\* in the log directory is announced by a debug record, flushed, closed and
\* removed from the logger (an exception of one of the calls is swallowed and
\* the next call is made)
RECURSIVE close_log_handlers(_, _, _)
close_log_handlers(hs, k, attached) ==
    IF k > Len(hs) THEN <<>>
    ELSE IF hs[k] = "file_in_log_dir"
         THEN Emit(attached)
                  \o <<LogEvent("flush", k, {}), LogEvent("close", k, {}),
                       LogEvent("removeHandler", k, {})>>
                  \o close_log_handlers(hs, k + 1, attached \ {k})
         ELSE close_log_handlers(hs, k + 1, attached)

\* the events of step (d) up to and including the rmtree
LogsRemovalEvents(hs) ==
    Emit(1..Len(hs)) \o close_log_handlers(hs, 1, 1..Len(hs))
        \o <<LogEvent("rmtree", 0, {})>>

\* a removal of the log directory whose failure is recorded and not raised
CleanupLogs_ErrorNotRaised(cs) ==
    LET hs == cs.fs.handlers
        after == Emit((1..Len(hs)) \ InLogDir(hs))
    IN  IF cs.fs.logDir
        THEN {[fs |-> [cs.fs EXCEPT !.logHandler = FALSE,
                                    !.handlers = KeptHandlers(hs),
                                    !.logDir = FALSE],
               raised |-> FALSE,
               events |-> LogsRemovalEvents(hs) \o after,
               results |-> [cs.results EXCEPT !.logs_removed = TRUE]],
              [fs |-> [cs.fs EXCEPT !.logHandler = FALSE,
                                    !.handlers = KeptHandlers(hs),
                                    !.faults = @ + 1],
               raised |-> FALSE,
               events |-> LogsRemovalEvents(hs) \o after,
               results |-> [cs.results EXCEPT
                   !.errors = @ \o <<"Failed to remove logs directory">>]]}
        ELSE {[fs |-> cs.fs, raised |-> FALSE, events |-> Emit(1..Len(hs)),
               results |-> cs.results]}

\* remove the application logs directory; a failure raises BackupError.
\* events is what step (d) did, in order; the records logged after the rmtree
\* go through the handlers left on the logger
CleanupLogs(cs) ==
    LET hs == cs.fs.handlers
        after == Emit((1..Len(hs)) \ InLogDir(hs))
    IN  IF cs.fs.logDir
        THEN {[fs |-> [cs.fs EXCEPT !.logHandler = FALSE,
                                    !.handlers = KeptHandlers(hs),
                                    !.logDir = FALSE],
               raised |-> FALSE,
               events |-> LogsRemovalEvents(hs) \o after,
               results |-> [cs.results EXCEPT !.logs_removed = TRUE]],
              [fs |-> [cs.fs EXCEPT !.logHandler = FALSE,
                                    !.handlers = KeptHandlers(hs),
                                    !.faults = @ + 1],
               raised |-> TRUE,
               events |-> LogsRemovalEvents(hs) \o after,
               results |-> [cs.results EXCEPT
                   !.errors = @ \o <<"Failed to remove logs directory">>]]}
        ELSE {[fs |-> cs.fs, raised |-> FALSE, events |-> Emit(1..Len(hs)),
               results |-> cs.results]}

\* a cleanup in which an error of a step ends the call
cleanup_all_StopsOnError(fs) ==
    LET Stopped(cs) == {[fs |-> cs.fs, raised |-> FALSE, events |-> <<>>,
                         results |-> cs.results]}
        a == Within(CleanupPatchedExe([fs |-> fs, results |-> NoResults]))
        b == Within(UNION {IF cs.results.errors # <<>> THEN {cs}
                           ELSE CleanupRestore(cs) : cs \in a})
        c == Within(UNION {IF cs.results.errors # <<>> THEN {cs}
                           ELSE CleanupShortcuts(cs) : cs \in b})
        d == Within(UNION {IF cs.results.errors # <<>> THEN Stopped(cs)
                           ELSE CleanupLogs(cs) : cs \in c})
    IN  {[fs |-> o.fs,
          ret |-> [op |-> "cleanup", raised |-> o.raised,
                   results |-> o.results, events |-> o.events,
                   returned |-> IF o.raised THEN None ELSE Some(o.results)]]
            : o \in d}

\* the outcomes [fs, ret]; ret.results is the results dictionary as it is
\* when the call returns it or raises the BackupError of the log directory,
\* ret.returned what the caller gets: the dictionary, or None when the call
\* raises (the exception carries the message of the last error only),
\* ret.events the events of step (d)
cleanup_all(fs) ==
    LET a == Within(CleanupPatchedExe([fs |-> fs, results |-> NoResults]))
        b == Within(UNION {CleanupRestore(cs) : cs \in a})
        c == Within(UNION {CleanupShortcuts(cs) : cs \in b})
        d == Within(UNION {CleanupLogs(cs) : cs \in c})
    IN  {[fs |-> o.fs,
          ret |-> [op |-> "cleanup", raised |-> o.raised,
                   results |-> o.results, events |-> o.events,
                   returned |-> IF o.raised THEN None ELSE Some(o.results)]]
            : o \in d}

----------------------------------------------------------------------------
(* ShortcutManager and the launch script it writes on Linux *)

\* create_shortcut(target_exe, shortcut_path, raid_name): the outcomes
\* [ok, launchers, fault]; ok = FALSE is ShortcutError.  On Linux the suffix
\* of the path becomes .sh, and a failure may come before the script is
\* written or after (chmod).
create_shortcut(fs, raid) ==
    LET lnk == [raid |-> raid, ext |-> "lnk"]
        sh == [raid |-> raid, ext |-> "sh"]
    IN  IF fs.platform = "win32"
        THEN {[ok |-> TRUE, launchers |-> fs.launchers \cup {lnk}, fault |-> 0],
              [ok |-> FALSE, launchers |-> fs.launchers, fault |-> 1]}
        ELSE IF fs.platform = "linux"
        THEN {[ok |-> TRUE, launchers |-> fs.launchers \cup {sh}, fault |-> 0],
              [ok |-> FALSE, launchers |-> fs.launchers, fault |-> 1],
              [ok |-> FALSE, launchers |-> fs.launchers \cup {sh}, fault |-> 1]}
        ELSE {[ok |-> FALSE, launchers |-> fs.launchers, fault |-> 0]}

\* the launch script of _create_linux_shortcut, run by the user: it backs the
\* original up unless a backup exists, then copies the patched exe over the
\* original; a failed cp does not stop the script
launch_script(fs) ==
    IF ~fs.installed.exists
    THEN {[fs |-> fs, ret |-> [op |-> "launch", status |-> 1]]}
    ELSE LET bks == IF fs.original.exists /\ ~fs.backup.exists
                    THEN copy2(fs.original, fs.backup)
                    ELSE {[ok |-> TRUE, dst |-> fs.backup, fault |-> 0]}
         IN  UNION {
               {[fs |-> [fs EXCEPT !.backup = b.dst, !.original = c.dst,
                                   !.faults = @ + b.fault + c.fault],
                 ret |-> [op |-> "launch", status |-> 0]]
                  : c \in copy2(fs.installed, fs.original)}
               : b \in bks}

----------------------------------------------------------------------------
(* DBFZRaidTUI.execute_patch_workflow(game_info, raid_index, current_raid) *)

WorkflowRet(raid, stage, offsets, shortcut) ==
    [op |-> "workflow", raid |-> raid, stage |-> stage, offsets |-> offsets,
     shortcut_created |-> shortcut]

\* step 4: delete the old "DBFZ Raid *.lnk" shortcuts (the glob may fail, each
\* unlink may fail: the set failed), then create the shortcut of the raid
WorkflowShortcuts(fs, raid, offsets) ==
    LET old == {l \in fs.launchers : l.ext = "lnk"}
    IN  UNION {
          {[fs |-> [fs EXCEPT !.launchers = s.launchers,
                              !.faults = @ + Cardinality(failed) + s.fault],
            ret |-> WorkflowRet(raid, "done", offsets, s.ok)]
             : s \in create_shortcut(
                        [fs EXCEPT !.launchers = @ \ (old \ failed)], raid)}
          : failed \in SUBSET old}

\* steps 1 to 4; a failed step returns
execute_patch_workflow(fs, raid) ==
    UNION {
      IF v.ret.raised
      THEN {[fs |-> v.fs, ret |-> WorkflowRet(raid, "verify failed", <<>>, FALSE)]}
      ELSE UNION {
        IF m.ret.raised
        THEN {[fs |-> m.fs,
               ret |-> WorkflowRet(raid, "prepare failed", <<>>, FALSE)]}
        ELSE UNION {
          IF a.ret.raised
          THEN {[fs |-> a.fs,
                 ret |-> WorkflowRet(raid, "patching error", <<>>, FALSE)]}
          ELSE IF ~a.ret.success
          THEN {[fs |-> a.fs,
                 ret |-> WorkflowRet(raid, "patching failed",
                                     a.ret.offsets, FALSE)]}
          ELSE WorkflowShortcuts(a.fs, raid, a.ret.offsets)
          : a \in Within(patch_executable(m.fs, raid))}
        : m \in Within(create_or_update_patched_exe(v.fs))}
      : v \in verify_clean_exe(fs)}

----------------------------------------------------------------------------
(* The buffers of the model *)

\* a signature whose operand bytes are b1 .. b4
Site(b1, b2, b3, b4) == <<pattern_start, b1, b2, b3, b4, pattern_end>>

\* two signatures that overlap: one at offset 0 and one at offset 2
OverlappingSites ==
    <<pattern_start, 0, pattern_start, 0, 0, pattern_end, 0, pattern_end>>

\* the pieces the originals of the lifecycle are made of: a filler byte, a
\* site holding the operand 1, two overlapping sites (operands above 38)
Segments == {<<255>>, Site(1, 0, 0, 0), OverlappingSites}

\* the pieces the buffers of the engine and of the scanner are made of: also
\* sites holding 0, 39, 256 + 5 and 65536 + 5, and lone marker bytes
EngineSegments ==
    Segments \cup {Site(0, 0, 0, 0), Site(39, 0, 0, 0), Site(5, 1, 0, 0),
                   Site(5, 0, 1, 0), <<pattern_start>>, <<pattern_end>>}

\* the concatenations of at most n of the segments
RECURSIVE SegmentBuffers(_, _)
SegmentBuffers(segments, n) ==
    IF n = 0 THEN {<<>>}
    ELSE LET shorter == SegmentBuffers(segments, n - 1)
         IN  shorter \cup {b \o s : b \in shorter, s \in segments}

\* every byte string over ScanBytes of length at most n
RECURSIVE ByteStrings(_)
ByteStrings(n) ==
    IF n = 0 THEN {<<>>}
    ELSE LET shorter == ByteStrings(n - 1)
         IN  shorter \cup {Append(b, x) : b \in shorter, x \in ScanBytes}

\* the buffers the engine and the scanner are run on
EngineBuffers == ByteStrings(ScanMaxLen) \cup SegmentBuffers(EngineSegments, MaxSegs)

----------------------------------------------------------------------------
(* The lifecycle specification: the operations of BackupManager and the     *)
(* patch engine, called in any order                                        *)

Init ==
    /\ platform \in {"win32", "linux"}
    /\ pristine \in SegmentBuffers(Segments, MaxSegs)
    /\ original \in {File(pristine)} \cup {NoFile : x \in {pristine} \cap {<<>>}}
    /\ installed = NoFile
    /\ backup = NoFile
    /\ launchers = {}
    /\ logDir = TRUE
    /\ logHandler = TRUE
    /\ handlers = DefaultHandlers
    /\ ret = [op |-> "none"]
    /\ detected = NotRun
    /\ faults = 0
    /\ scanBuf = <<>>
    /\ scanOut = [op |-> "none"]

\* the file system becomes that of an outcome
BecomesFS(fs) ==
    /\ fs.faults <= MaxFaults
    /\ original' = fs.original
    /\ installed' = fs.installed
    /\ backup' = fs.backup
    /\ launchers' = fs.launchers
    /\ logDir' = fs.logDir
    /\ logHandler' = fs.logHandler
    /\ handlers' = fs.handlers
    /\ faults' = fs.faults
    /\ UNCHANGED <<platform, pristine, scanBuf, scanOut>>

\* an operation ended with outcome o
Becomes(o) == BecomesFS(o.fs) /\ ret' = o.ret /\ detected' = NotRun

VerifyOriginal == \E o \in verify_clean_exe(FS) : Becomes(o)

Materialize == \E o \in create_or_update_patched_exe(FS) : Becomes(o)

Apply == \E v \in RaidInputs : \E o \in patch_executable(FS, v) : Becomes(o)

DetectCurrent ==
    \E o \in detect_current_patch(FS) :
        BecomesFS(o.fs) /\ detected' = o.detected /\ UNCHANGED ret

InstallOverOriginalLocation ==
    \E o \in install_patched_exe_linux(FS) : Becomes(o)

CleanupAll == \E o \in cleanup_all(FS) : Becomes(o)

Next ==
    \/ VerifyOriginal
    \/ Materialize
    \/ Apply
    \/ DetectCurrent
    \/ InstallOverOriginalLocation
    \/ CleanupAll

Spec == Init /\ [][Next]_vars

----------------------------------------------------------------------------
(* The workflow specification: what the menu of the TUI and the launch      *)
(* script do                                                               *)

PatchWorkflow ==
    \E raid \in RaidInputs : \E o \in execute_patch_workflow(FS, raid) : Becomes(o)

RunLauncher ==
    /\ platform = "linux"
    /\ \E l \in launchers : l.ext = "sh"
    /\ \E o \in launch_script(FS) : Becomes(o)

CheckCurrentPatch == DetectCurrent

CleanupWorkflow == CleanupAll

NextWorkflow ==
    \/ CheckCurrentPatch
    \/ PatchWorkflow
    \/ CleanupWorkflow
    \/ RunLauncher

SpecWorkflow == Init /\ [][NextWorkflow]_vars

----------------------------------------------------------------------------
(* The engine specification: detect_current_patch and patch_executable on   *)
(* a patched exe that is absent or a fresh copy of an original of any bytes *)

InitEngine ==
    /\ platform = "win32"
    /\ pristine \in EngineBuffers
    /\ original = File(pristine)
    /\ installed \in {NoFile, File(pristine)}
    /\ backup = NoFile
    /\ launchers = {}
    /\ logDir = TRUE
    /\ logHandler = TRUE
    /\ handlers = DefaultHandlers
    /\ ret = [op |-> "none"]
    /\ detected = NotRun
    /\ faults = 0
    /\ scanBuf = <<>>
    /\ scanOut = [op |-> "none"]

EngineDetect == DetectCurrent

EngineApply == Apply

NextEngine == EngineDetect \/ EngineApply

SpecEngine == InitEngine /\ [][NextEngine]_vars

----------------------------------------------------------------------------
(* The scanner specification: findSites, writeSite and decodeValue on a     *)
(* buffer in memory                                                        *)

InitScanner ==
    /\ platform = "win32"
    /\ pristine = <<>>
    /\ original = NoFile
    /\ installed = NoFile
    /\ backup = NoFile
    /\ launchers = {}
    /\ logDir = TRUE
    /\ logHandler = TRUE
    /\ handlers = DefaultHandlers
    /\ ret = [op |-> "none"]
    /\ detected = NotRun
    /\ faults = 0
    /\ scanBuf \in EngineBuffers
    /\ scanOut = [op |-> "none"]

\* findSites(buffer)
FindSites ==
    /\ scanOut' = [op |-> "findSites", sites |-> findSites(scanBuf)]
    /\ UNCHANGED <<scanBuf, lifecycleVars>>

\* writeSite(buffer, site, newValue) at a site the scan found, in place
WriteSite ==
    /\ \E k \in 1..Len(findSites(scanBuf)) : \E v \in RaidInputs :
        /\ scanBuf' = writeSite(scanBuf, findSites(scanBuf)[k], v)
        /\ scanOut' = [op |-> "writeSite", site |-> findSites(scanBuf)[k],
                       value |-> v, before |-> scanBuf]
    /\ UNCHANGED lifecycleVars

\* decodeValue(buffer, site) at a site the scan finds
DecodeValue ==
    /\ \E k \in 1..Len(findSites(scanBuf)) :
        scanOut' = [op |-> "decodeValue", site |-> findSites(scanBuf)[k],
                    value |-> decodeValue(scanBuf, findSites(scanBuf)[k])]
    /\ UNCHANGED <<scanBuf, lifecycleVars>>

NextScanner == FindSites \/ WriteSite \/ DecodeValue

SpecScanner == InitScanner /\ [][NextScanner]_vars

----------------------------------------------------------------------------
(* The rerun specification: the program started on a game folder an earlier *)
(* run left: the patched exe may exist, unpatched or patched for raid 5, a  *)
(* launcher may exist, and the original may since have been deleted         *)

\* the launcher the patch workflow of the platform creates for a raid
WorkflowLauncher(plat, raid) ==
    [raid |-> raid, ext |-> IF plat = "win32" THEN "lnk" ELSE "sh"]

InitRerun ==
    /\ platform \in {"win32", "linux"}
    /\ pristine \in SegmentBuffers(Segments, MaxSegs)
    /\ original \in {NoFile, File(pristine)}
    /\ installed \in {NoFile, File(pristine),
                      File(writeAll(pristine, findSites(pristine), 5))}
    /\ backup = NoFile
    /\ launchers \in {{}, {WorkflowLauncher(platform, 5)}}
    /\ logDir = TRUE
    /\ logHandler = TRUE
    /\ handlers = DefaultHandlers
    /\ ret = [op |-> "none"]
    /\ detected = NotRun
    /\ faults = 0
    /\ scanBuf = <<>>
    /\ scanOut = [op |-> "none"]

RerunVerify == VerifyOriginal

RerunMaterialize == Materialize

RerunPatchWorkflow == PatchWorkflow

NextRerun == RerunVerify \/ RerunMaterialize \/ RerunPatchWorkflow

SpecRerun == InitRerun /\ [][NextRerun]_vars

----------------------------------------------------------------------------
(* The logs specification: cleanup_all on a logger with any handlers, the   *)
(* log directory existing or not                                           *)

\* the lists of at most n handler kinds
RECURSIVE HandlerLists(_)
HandlerLists(n) ==
    IF n = 0 THEN {<<>>}
    ELSE LET shorter == HandlerLists(n - 1)
         IN  shorter \cup {Append(hs, kind) : hs \in shorter, kind \in HandlerKinds}

InitLogs ==
    /\ platform \in {"win32", "linux"}
    /\ pristine \in SegmentBuffers(Segments, 1)
    /\ original = File(pristine)
    /\ installed \in {NoFile, File(pristine)}
    /\ backup = NoFile
    /\ launchers = {}
    /\ logDir \in BOOLEAN
    /\ handlers \in HandlerLists(MaxHandlers)
    /\ logHandler = (InLogDir(handlers) # {})
    /\ ret = [op |-> "none"]
    /\ detected = NotRun
    /\ faults = 0
    /\ scanBuf = <<>>
    /\ scanOut = [op |-> "none"]

LogsCleanup == CleanupAll

NextLogs == LogsCleanup

SpecLogs == InitLogs /\ [][NextLogs]_vars

----------------------------------------------------------------------------
(* Notions the claims are stated with *)

\* the offsets at which the signature occurs in a buffer
MatchOffsets(buffer) ==
    {i \in 0..(Len(buffer) - 6) :
        buffer[i + 1] = pattern_start /\ buffer[i + 6] = pattern_end}

\* the offsets at which it occurs with an operand in 1..38
ValidOffsets(buffer) ==
    {i \in MatchOffsets(buffer) :
        /\ buffer[i + 3] = 0 /\ buffer[i + 4] = 0 /\ buffer[i + 5] = 0
        /\ buffer[i + 2] >= MinRaid /\ buffer[i + 2] <= MaxRaid}

\* the offsets of the operand bytes of the occurrences
OperandOffsets(buffer) == {i + j : i \in MatchOffsets(buffer), j \in 1..4}

\* no two of the offsets are less than 6 apart
NonOverlapping(offsets) ==
    \A i, j \in offsets : i < j => j - i >= 6

\* the least of a non-empty set of offsets
Least(offsets) == CHOOSE i \in offsets : \A j \in offsets : i <= j

\* the elements of a sequence
Elements(seq) == {seq[k] : k \in 1..Len(seq)}

\* a sequence of offsets is strictly increasing
Increasing(seq) == \A k \in 1..(Len(seq) - 1) : seq[k] < seq[k + 1]

----------------------------------------------------------------------------
(* C1: the original executable is never mutated: after any sequence of     *)
(* verifyOriginal, materialize, apply, detectCurrent,                      *)
(* installOverOriginalLocation and cleanupAll, on every platform, the      *)
(* bytes of RED-Win64-Shipping.exe are its bytes in the initial state.     *)
(* install_patched_exe_linux breaks this on Linux: it copies the patched   *)
(* exe over the original.                                                  *)

C1_OriginalNeverMutated == original.exists => original.data = pristine

----------------------------------------------------------------------------
\* buffer a has the length of buffer p and differs from it at operand bytes
\* of the signature occurrences of p only
DiffersOnlyAtOperands(a, p) ==
    /\ Len(a) = Len(p)
    /\ \A k \in 1..Len(a) : a[k] # p[k] => (k - 1) \in OperandOffsets(p)

(* C2 as stated: in every reachable state in which the patched exe exists, *)
(* it has the length of the pristine original and equals it at every       *)
(* position except the 4 operand bytes of matched sites.  A copy or a      *)
(* persist that fails part-way leaves a truncated patched exe.             *)

----------------------------------------------------------------------------
(* C3: every successful materialize leaves the patched exe byte-identical  *)
(* to the original exe, whatever the patched exe held before and even when *)
(* deleting the old patched exe failed.                                    *)

C3_MaterializeIsFreshCopy ==
    (ret.op = "materialize" /\ ~ret.raised) =>
        /\ original.exists
        /\ installed = File(original.data)

\* a successful materialize whose unlink of the old patched exe failed
C3_Witness ==
    /\ ret.op = "materialize" /\ ~ret.raised /\ ret.unlink_failed
    /\ MatchOffsets(original.data) # {}

----------------------------------------------------------------------------
(* C4 as stated: after materialize followed by a successful apply(value),  *)
(* detect_current_patch returns exactly value, for every original with at  *)
(* least one signature match, overlapping matches included.  With          *)
(* overlapping matches the writes destroy the markers of one another, and  *)
(* a read that fails returns None.                                         *)

C4_DetectReturnsApplied ==
    (ret.op = "workflow" /\ ret.stage = "done" /\ detected.ran) =>
        detected.val = Some(ret.raid)

(* C4: after materialize followed by a successful apply(value) with value  *)
(* in 1..38, detect_current_patch returns exactly value when it reads the  *)
(* patched exe without error and no two of the matched sites overlap       *)
(* (adjacent sites included).                                              *)

C4_DetectReturnsAppliedNonOverlapping ==
    (/\ ret.op = "workflow" /\ ret.stage = "done"
     /\ detected.ran /\ ~detected.read_failed
     /\ NonOverlapping(Elements(ret.offsets))) =>
        detected.val = Some(ret.raid)

\* detect after the workflow patched two adjacent sites
C4_Witness ==
    /\ ret.op = "workflow" /\ ret.stage = "done"
    /\ detected.ran /\ ~detected.read_failed
    /\ Len(ret.offsets) = 2 /\ ret.offsets[2] = ret.offsets[1] + 6
    /\ detected.val = Some(ret.raid)

----------------------------------------------------------------------------
(* C5: after materialize from an unpatched original and before any apply,  *)
(* detect_current_patch returns None, for every unpatched original,        *)
(* including one whose sites hold a default operand such as 1.  The code   *)
(* returns the default operand.                                            *)

C5_DetectNoneBeforeApply ==
    (/\ ret.op = "materialize" /\ ~ret.raised
     /\ original = File(pristine)
     /\ detected.ran) =>
        detected.val = None

----------------------------------------------------------------------------
\* the operand at the lowest offset at which a valid signature occurs
LowestValidOperand(buffer) == buffer[Least(ValidOffsets(buffer)) + 2]

(* C6 as stated: when the patched exe exists, detect_current_patch returns *)
(* the operand of the lowest offset i with buffer[i] = 0xB8,               *)
(* buffer[i+5] = 0x90 and an operand in 1..38.  A read that fails returns  *)
(* None.                                                                   *)

C6_DetectLowestValid ==
    (/\ detected.ran /\ installed.exists
     /\ ValidOffsets(installed.data) # {}) =>
        detected.val = Some(LowestValidOperand(installed.data))

(* C6: when the patched exe exists and is read without error,              *)
(* detect_current_patch returns the operand of the lowest offset i with    *)
(* buffer[i] = 0xB8, buffer[i+5] = 0x90 and an operand in 1..38; matches   *)
(* at lower offsets whose operand is 0 or above 38 do not stop the scan.   *)

C6_DetectLowestValidWhenRead ==
    (/\ detected.ran /\ installed.exists /\ ~detected.read_failed
     /\ ValidOffsets(installed.data) # {}) =>
        detected.val = Some(LowestValidOperand(installed.data))

\* a match with an invalid operand lies below the valid one that is returned
C6_Witness ==
    /\ detected.ran /\ installed.exists /\ ~detected.read_failed
    /\ ValidOffsets(installed.data) # {}
    /\ \E i \in MatchOffsets(installed.data) :
          i < Least(ValidOffsets(installed.data))
    /\ detected.val = Some(LowestValidOperand(installed.data))

----------------------------------------------------------------------------
(* C7 as stated: detect_current_patch returns None exactly when the        *)
(* patched exe does not exist or no signature match in it decodes to a     *)
(* value in 1..38; otherwise it returns a value in 1..38.  It also returns *)
(* None when reading the file fails.                                       *)

C7_DetectNoneExactly ==
    detected.ran =>
        /\ detected.val = None <=>
              (~installed.exists \/ ValidOffsets(installed.data) = {})
        /\ detected.val # None =>
              (detected.val[1] >= MinRaid /\ detected.val[1] <= MaxRaid)

(* C7: detect_current_patch returns None exactly when the patched exe does *)
(* not exist, cannot be read, or holds no signature match that decodes to  *)
(* a value in 1..38 (empty and shorter than 6 bytes included); otherwise   *)
(* it returns a value in 1..38.                                            *)

C7_DetectNoneExactlyOrUnreadable ==
    detected.ran =>
        /\ detected.val = None <=>
              (\/ ~installed.exists
               \/ detected.read_failed
               \/ ValidOffsets(installed.data) = {})
        /\ detected.val # None =>
              (detected.val[1] >= MinRaid /\ detected.val[1] <= MaxRaid)

\* None from a patched exe of 1 to 5 bytes that holds a marker byte
C7_Witness ==
    /\ detected.ran /\ installed.exists /\ ~detected.read_failed
    /\ Len(installed.data) >= 1 /\ Len(installed.data) < 6
    /\ installed.data[1] = pattern_start
    /\ detected.val = None

----------------------------------------------------------------------------
(* C8: for every buffer with exactly k >= 0 non-overlapping occurrences of *)
(* the signature, the scan returns exactly k sites, in increasing order of *)
(* offset, each the offset of its 0xB8 marker, a site at offset 0 and a    *)
(* site ending at the last byte included.                                  *)

C8_ScanFindsEverySite ==
    (scanOut.op = "findSites" /\ NonOverlapping(MatchOffsets(scanBuf))) =>
        /\ Len(scanOut.sites) = Cardinality(MatchOffsets(scanBuf))
        /\ Elements(scanOut.sites) = MatchOffsets(scanBuf)
        /\ Increasing(scanOut.sites)

\* two sites: one at offset 0, one ending at the last byte, not 6-byte aligned
C8_Witness ==
    /\ scanOut.op = "findSites"
    /\ NonOverlapping(MatchOffsets(scanBuf))
    /\ Len(scanOut.sites) = 2
    /\ scanOut.sites[1] = 0
    /\ scanOut.sites[2] + 6 = Len(scanBuf)
    /\ scanOut.sites[2] > 6

----------------------------------------------------------------------------
(* C9: round trip: for every buffer, every site found in it and every v in *)
(* 1..38, decodeValue(writeSite(buffer, site, v), site) = v, the operand   *)
(* being stored least significant byte first.                              *)

C9_WriteDecodeRoundTrip ==
    scanOut.op = "writeSite" =>
        /\ decodeValue(scanBuf, scanOut.site) = U32(scanOut.value)
        /\ ByteAt(scanBuf, scanOut.site + 1) = scanOut.value
        /\ ByteAt(scanBuf, scanOut.site + 2) = 0
        /\ ByteAt(scanBuf, scanOut.site + 3) = 0
        /\ ByteAt(scanBuf, scanOut.site + 4) = 0

\* the write replaced an operand above 38 at a site that is not the first
C9_Witness ==
    /\ scanOut.op = "writeSite"
    /\ scanOut.site > 0
    /\ ~ValidRaid(decodeValue(scanOut.before, scanOut.site))
    /\ decodeValue(scanBuf, scanOut.site) = U32(scanOut.value)

----------------------------------------------------------------------------
\* the offsets of a set, in increasing order
RECURSIVE InOrder(_)
InOrder(offsets) ==
    IF offsets = {} THEN <<>>
    ELSE <<Least(offsets)>> \o InOrder(offsets \ {Least(offsets)})

\* a step of patch_executable that succeeded
AppliedStep == ret'.op = "apply" /\ ret'.success /\ ~detected'.ran

(* C10 as stated: after a successful apply every site found by the scan of *)
(* the pre-call buffer decodes to v, and the result's offsets list is the  *)
(* offsets of those sites in scan order.  When a site begins within the    *)
(* operand of another, the later write overwrites the earlier operand.     *)

C10_ApplyWritesEverySite ==
    [][AppliedStep =>
        /\ ret'.offsets = InOrder(MatchOffsets(installed.data))
        /\ \A s \in MatchOffsets(installed.data) :
              decodeValue(installed'.data, s) = U32(ret'.raid)]_vars

(* C10: apply(path, v) writes v at every site the scan finds, not only the *)
(* first: the result's offsets list is exactly the offsets of the sites of *)
(* the pre-call buffer in scan order, and after a successful apply every   *)
(* such site decodes to v, except a site s for which another site begins   *)
(* at one of the offsets s+1 .. s+3 (inside the operand of s).             *)

C10_ApplyWritesEverySiteNotOverwritten ==
    [][AppliedStep =>
        /\ ret'.offsets = InOrder(MatchOffsets(installed.data))
        /\ \A s \in MatchOffsets(installed.data) :
              (\A t \in MatchOffsets(installed.data) : t <= s \/ t > s + 3) =>
                  decodeValue(installed'.data, s) = U32(ret'.raid)]_vars

\* a successful apply that wrote the value at two sites
C10_Witness ==
    /\ ret.op = "apply" /\ ret.success
    /\ Len(ret.offsets) = 2
    /\ ret.offsets[2] = ret.offsets[1] + 6
    /\ \A k \in 1..2 : decodeValue(installed.data, ret.offsets[k]) = U32(ret.raid)

----------------------------------------------------------------------------
\* a step of patch_executable
ApplyStep == ret'.op = "apply" /\ ~detected'.ran

(* C11: apply on a patched exe with zero signature matches returns         *)
(* success = false with a non-empty error list and an empty offsets list,  *)
(* raises nothing, and leaves the patched exe byte-identical to its        *)
(* pre-call state (the file being one apply can read).                     *)

C11_ApplyZeroSites ==
    [][(/\ ApplyStep
        /\ installed.exists /\ MatchOffsets(installed.data) = {}
        /\ faults' = faults) =>
          /\ ~ret'.raised
          /\ ~ret'.success
          /\ ret'.errors # <<>>
          /\ ret'.offsets = <<>>
          /\ installed' = installed]_vars

\* a failed apply on a patched exe that holds both marker bytes but no site
C11_Witness ==
    /\ ret.op = "apply" /\ ~ret.raised /\ ~ret.success
    /\ ret.errors = <<"no patch locations found">>
    /\ installed.exists
    /\ MatchOffsets(installed.data) = {}
    /\ pattern_start \in Elements(installed.data)
    /\ pattern_end \in Elements(installed.data)

----------------------------------------------------------------------------
(* C12: the success flag of the result of apply is true if and only if at  *)
(* least one site was matched and the mutated buffer was persisted; when   *)
(* persisting fails the result has success = false and its error list      *)
(* contains the I/O error.                                                 *)

C12_SuccessIffMatchedAndPersisted ==
    [][ApplyStep =>
          /\ ret'.success <=>
                (/\ installed.exists
                 /\ MatchOffsets(installed.data) # {}
                 /\ faults' = faults)
          /\ ret'.success =>
                (/\ installed'.exists
                 /\ Len(installed'.data) = Len(installed.data)
                 /\ ret'.errors = <<>>)
          /\ (~ret'.raised /\ faults' > faults) =>
                (~ret'.success /\ "io error" \in Elements(ret'.errors))]_vars

\* an apply that matched a site and failed to persist, leaving a shorter file
C12_Witness ==
    /\ ret.op = "apply" /\ ~ret.raised /\ ~ret.success
    /\ ret.offsets # <<>>
    /\ "io error" \in Elements(ret.errors)
    /\ installed.exists
    /\ Len(installed.data) < Len(pristine)

----------------------------------------------------------------------------
\* an apply of the value of the apply before it, which succeeded or found no
\* site, with no failing call
ApplyTwiceStep ==
    /\ ret.op = "apply" /\ ~ret.raised
    /\ ret.success \/ ret.offsets = <<>>
    /\ ApplyStep
    /\ ret'.raid = ret.raid
    /\ faults' = faults

(* C13 as stated: applying v twice in succession produces an artifact      *)
(* byte-identical to applying v once, and the second apply reports the     *)
(* same offsets as the first.  With overlapping sites the first apply      *)
(* destroys markers, so the second finds fewer sites.                      *)

C13_ApplyIdempotent ==
    [][ApplyTwiceStep =>
          /\ installed' = installed
          /\ ret'.offsets = ret.offsets]_vars

(* C13: idempotence of apply: for every buffer and every v in 1..38,       *)
(* applying v twice in succession produces an artifact byte-identical to   *)
(* applying v once; the second apply reports the same offsets as the first *)
(* when no two of the matched sites overlap.                               *)

C13_ApplyIdempotentOffsetsNonOverlapping ==
    [][ApplyTwiceStep =>
          /\ installed' = installed
          /\ NonOverlapping(Elements(ret.offsets)) =>
                ret'.offsets = ret.offsets]_vars

\* a successful apply of two sites after which the scan finds the same sites,
\* each holding the value
C13_Witness ==
    /\ ret.op = "apply" /\ ret.success
    /\ Len(ret.offsets) = 2
    /\ findSites(installed.data) = ret.offsets
    /\ \A k \in 1..2 : decodeValue(installed.data, ret.offsets[k]) = U32(ret.raid)
    /\ installed.data # pristine

----------------------------------------------------------------------------
\* a step of install_patched_exe_linux
InstallStep == ret'.op = "install" /\ ~detected'.ran

(* C14: install_patched_exe_linux never overwrites an existing backup: if  *)
(* the backup file exists before the call its bytes are unchanged after    *)
(* the call, so that across install calls without a cleanup in between the *)
(* backup is written at most once.                                         *)

C14_InstallKeepsBackup ==
    [][(InstallStep /\ backup.exists) => backup' = backup]_vars

\* an install that succeeded over a location that no longer held the pristine
\* bytes of the backup
C14_Witness ==
    /\ ret.op = "install" /\ ret.value
    /\ backup = File(pristine)
    /\ original = installed
    /\ original.data # pristine

----------------------------------------------------------------------------
\* a step of cleanup_all
CleanupStep == ret'.op = "cleanup" /\ ~detected'.ran

\* the files a cleanup may touch are as they were
CleanupChangedNothing ==
    /\ UNCHANGED <<original, installed, backup, launchers, logDir>>

\* no patched exe, no backup and no launcher
NothingInstalled == ~installed.exists /\ ~backup.exists /\ launchers = {}

\* the previous call was a cleanup_all that returned without errors
AfterCleanCleanup ==
    ret.op = "cleanup" /\ ~ret.raised /\ ret.results.errors = <<>>

(* C15 as stated: cleanup_all is idempotent: run when nothing is installed *)
(* or immediately after a cleanup_all that completed without errors, it    *)
(* returns all false, zero shortcuts and no errors, raises nothing and     *)
(* changes no file.  With nothing installed the log directory of the       *)
(* running program still exists and is removed, and the scan for shortcuts *)
(* may fail.                                                               *)

C15_CleanupIdempotent ==
    [][(CleanupStep /\ (NothingInstalled \/ AfterCleanCleanup)) =>
          /\ ret'.results = NoResults
          /\ ~ret'.raised
          /\ CleanupChangedNothing]_vars

(* C15: cleanup_all is idempotent: run when nothing is installed and the   *)
(* log directory does not exist, or immediately after a cleanup_all that   *)
(* completed without errors, and with no file system call failing, it      *)
(* returns all false, zero shortcuts and no errors, raises nothing and     *)
(* changes no file.                                                        *)

C15_CleanupIdempotentNoLogDir ==
    [][(/\ CleanupStep
        /\ (NothingInstalled /\ ~logDir) \/ AfterCleanCleanup
        /\ faults' = faults) =>
          /\ ret'.results = NoResults
          /\ ~ret'.raised
          /\ CleanupChangedNothing]_vars

\* a cleanup that found nothing to remove, the log directory being gone
C15_Witness ==
    /\ ret.op = "cleanup" /\ ~ret.raised
    /\ ret.results = NoResults
    /\ ~logDir
    /\ NothingInstalled
    /\ original.exists

----------------------------------------------------------------------------
\* the launchers the platform's glob pattern matches
Found == {l \in launchers : l.ext = get_shortcut_extension(platform)}

\* how many of the errors are the message e
Count(errors, e) == Cardinality({k \in 1..Len(errors) : errors[k] = e})

(* C16: cleanup_all is best-effort: a failure in deleting the patched exe, *)
(* in restoring the backup or in deleting a launcher appends an error to   *)
(* the results and does not keep a later step (restore, each remaining     *)
(* launcher, log directory) from being attempted.                          *)

C16_CleanupBestEffort ==
    [][CleanupStep =>
        LET r == ret'.results
        IN  /\ installed.exists =>
                \/ r.patched_exe_removed /\ ~installed'.exists
                \/ /\ "Failed to remove patched exe" \in Elements(r.errors)
                   /\ installed' = installed
            /\ (platform = "linux" /\ backup.exists) =>
                \/ r.original_restored
                \/ "Failed to restore original exe" \in Elements(r.errors)
            /\ \/ "Error scanning for shortcuts" \in Elements(r.errors)
               \/ /\ r.shortcuts_removed
                       + Count(r.errors, "Failed to remove shortcut")
                     = Cardinality(Found)
                  /\ Cardinality(launchers \ launchers') = r.shortcuts_removed
            /\ logDir =>
                \/ r.logs_removed /\ ~logDir'
                \/ ret'.raised
            /\ ~logHandler']_vars

\* one of two launchers could not be deleted: the other one and the log
\* directory were removed
C16_Witness ==
    /\ ret.op = "cleanup" /\ ~ret.raised
    /\ ret.results.errors = <<"Failed to remove shortcut">>
    /\ ret.results.shortcuts_removed = 1
    /\ ret.results.logs_removed
    /\ Cardinality(launchers) = 1
    /\ ~logDir

----------------------------------------------------------------------------
(* C17: when the removal of the log directory fails, cleanup_all aborts    *)
(* with a fatal error and the results of the sub-steps already performed   *)
(* (patched_exe_removed, original_restored, shortcuts_removed, earlier     *)
(* errors) are still returned to the caller.  The code raises BackupError  *)
(* with the message of the log directory alone: the results dictionary is  *)
(* dropped.                                                                *)

C17_FatalCleanupReturnsResults ==
    (ret.op = "cleanup" /\ ret.raised) =>
        /\ "Failed to remove logs directory" \in Elements(ret.results.errors)
        /\ ret.returned = Some(ret.results)

----------------------------------------------------------------------------
(* C18: given a patched exe and n launcher files under the game root and   *)
(* no failing file system call, cleanup_all returns patched_exe_removed =  *)
(* true, shortcuts_removed = n and no errors, and afterwards neither the   *)
(* patched exe nor a launcher the patch workflow created on the platform   *)
(* exists.                                                                 *)

C18_CleanupRemovesAll ==
    [][(CleanupStep /\ installed.exists /\ faults' = faults) =>
          /\ ~ret'.raised
          /\ ret'.results.patched_exe_removed
          /\ ret'.results.shortcuts_removed = Cardinality(launchers)
          /\ ret'.results.errors = <<>>
          /\ ~installed'.exists
          /\ launchers' = {}]_vars

\* a cleanup that removed the patched exe and two launchers without an error
C18_Witness ==
    /\ ret.op = "cleanup" /\ ~ret.raised
    /\ ret.results.patched_exe_removed
    /\ ret.results.shortcuts_removed = 2
    /\ ret.results.errors = <<>>
    /\ ~installed.exists
    /\ launchers = {}

----------------------------------------------------------------------------
(* C19 as stated: if a backup of the launch location exists when           *)
(* cleanup_all runs and no file system call of the run fails, then after   *)
(* cleanup_all the launch location is byte-identical to the pristine       *)
(* original, the backup file no longer exists and original_restored is     *)
(* true.  A backup whose copy failed part-way is truncated, and cleanup    *)
(* copies it over the original.                                            *)

----------------------------------------------------------------------------
\* a step of execute_patch_workflow
WorkflowStep == ret'.op = "workflow" /\ ~detected'.ran

\* sequence a is the first Len(a) elements of sequence b
IsPrefix(a, b) == Len(a) <= Len(b) /\ a = SubSeq(b, 1, Len(a))

(* C20: if the copy of the original to the patched exe fails, materialize  *)
(* fails with a fatal error (it returns no path) and the patch workflow    *)
(* performs no apply and creates no launcher: a workflow that went on to   *)
(* apply did so on a complete copy.                                        *)

C20_PrepareFailureStopsWorkflow ==
    [][WorkflowStep =>
          /\ ret'.stage = "prepare failed" =>
                /\ faults' > faults
                /\ launchers' = launchers
                /\ ret'.offsets = <<>>
                /\ ~ret'.shortcut_created
                /\ \/ installed' = installed
                   \/ ~installed'.exists
                   \/ IsPrefix(installed'.data, original.data)
          /\ ret'.stage = "patching error" => installed' = File(original.data)
          /\ ret'.stage = "done" =>
                DiffersOnlyAtOperands(installed'.data, original.data)]_vars

\* a workflow that stopped at a copy that left half of an original with a
\* site: the half is not patched and no launcher exists
C20_Witness ==
    /\ ret.op = "workflow" /\ ret.stage = "prepare failed"
    /\ installed.exists
    /\ Len(installed.data) < Len(original.data)
    /\ MatchOffsets(original.data) # {}
    /\ launchers = {}

----------------------------------------------------------------------------
\* a step of verify_clean_exe
VerifyStep == ret'.op = "verify" /\ ~detected'.ran

(* C21: verify_clean_exe returns true when the original exists and raises  *)
(* the missing-original error when it is absent, changing no file; when it *)
(* raises, the patch workflow stops at once: the patched exe and the       *)
(* launchers are as they were (no materialize, no apply, no launcher       *)
(* creation), and the workflow stops at the verification for no other      *)
(* reason.                                                                 *)

C21_MissingOriginalAborts ==
    [][/\ VerifyStep =>
          /\ ret'.raised <=> ~original.exists
          /\ UNCHANGED <<original, installed, backup, launchers, faults>>
       /\ WorkflowStep =>
          /\ ret'.stage = "verify failed" <=> ~original.exists
          /\ ~original.exists =>
                /\ UNCHANGED <<original, installed, backup, launchers, faults>>
                /\ ret'.offsets = <<>>
                /\ ~ret'.shortcut_created]_vars

\* a workflow that stopped at the verification, an earlier patched exe and
\* its launcher being in place
C21_Witness ==
    /\ ret.op = "workflow" /\ ret.stage = "verify failed"
    /\ ~original.exists
    /\ installed.exists /\ MatchOffsets(installed.data) # {}
    /\ launchers # {}

----------------------------------------------------------------------------
(* C22: writeSite(buffer, site, v) changes only the bytes at offsets       *)
(* site+1 .. site+4: the length of the buffer, the two marker bytes of the *)
(* site (offsets site and site+5) and every other byte of the buffer are   *)
(* as they were.                                                           *)

C22_WriteSiteFrame ==
    scanOut.op = "writeSite" =>
        /\ Len(scanBuf) = Len(scanOut.before)
        /\ ByteAt(scanBuf, scanOut.site) = pattern_start
        /\ ByteAt(scanBuf, scanOut.site + 5) = pattern_end
        /\ \A i \in 0..(Len(scanBuf) - 1) :
              (i < scanOut.site + 1 \/ i > scanOut.site + 4) =>
                  ByteAt(scanBuf, i) = ByteAt(scanOut.before, i)

\* a write that changed the operand of a site with bytes before it and after
\* it
C22_Witness ==
    /\ scanOut.op = "writeSite"
    /\ scanBuf # scanOut.before
    /\ scanOut.site > 0
    /\ Len(scanBuf) > scanOut.site + 6

----------------------------------------------------------------------------
\* the 6 bytes of the signature occurrence at offset t of a buffer
SiteBytes(buffer, t) == SubSeq(buffer, t + 1, t + 6)

(* C23 as stated: overlapping matches cannot occur: in every buffer any    *)
(* two distinct offsets that match the signature are at least 6 bytes      *)
(* apart, so writing the operand of one matched site never alters a marker *)
(* or operand byte of another matched site.  B8 00 B8 00 00 90 00 90       *)
(* matches at offsets 0 and 2, and the write at site 2 changes operand     *)
(* bytes of site 0.                                                        *)

C23_NoOverlappingMatches ==
    /\ NonOverlapping(MatchOffsets(scanBuf))
    /\ scanOut.op = "writeSite" =>
          \A t \in MatchOffsets(scanOut.before) \ {scanOut.site} :
              SiteBytes(scanBuf, t) = SiteBytes(scanOut.before, t)

(* C23: writing the operand of a matched site never alters a marker or     *)
(* operand byte of another matched site that is at least 6 bytes away from *)
(* it (matches less than 6 bytes apart do occur).                          *)

C23_DistantSitesUntouched ==
    scanOut.op = "writeSite" =>
        \A t \in MatchOffsets(scanOut.before) :
            (t >= scanOut.site + 6 \/ scanOut.site >= t + 6) =>
                SiteBytes(scanBuf, t) = SiteBytes(scanOut.before, t)

\* a write that changed the operand of the first of two adjacent sites
C23_Witness ==
    /\ scanOut.op = "writeSite"
    /\ scanBuf # scanOut.before
    /\ (scanOut.site + 6) \in MatchOffsets(scanOut.before)
    /\ (scanOut.site + 6) \in MatchOffsets(scanBuf)

----------------------------------------------------------------------------
\* the sites of buffer pre that lie within buffer post
SitesWithin(pre, post) == {s \in MatchOffsets(pre) : s + 6 <= Len(post)}

\* those of them whose operand bytes in post are not the ones of pre
Rewritten(pre, post) ==
    {s \in SitesWithin(pre, post) : raid_bytes(post, s) # raid_bytes(pre, s)}

(* C24 as stated: apply never exposes a half-patched file: the site writes *)
(* are made to an in-memory copy and the patched exe is written in a       *)
(* single step, so an apply whose read or scan fails leaves the file as it *)
(* was, and in no reachable state only a proper non-empty subset of the    *)
(* matched sites is rewritten on disk.  A persist that fails part-way      *)
(* leaves a prefix of the new buffer: its leading sites only.              *)

----------------------------------------------------------------------------
(* C25: patch application is a single atomic lifecycle transition: a patch *)
(* request that starts with no patched exe or with a patched one ends      *)
(* either with the patched exe of the new value or, on any failure         *)
(* (missing original, copy failure, zero sites, persist failure), with the *)
(* patched exe as it was at the start, never with an unpatched copy of the *)
(* original or with the previous patched exe deleted.  The workflow        *)
(* deletes the previous patched exe and copies the original before it      *)
(* applies, and undoes neither when a later step fails.                    *)

C25_PatchRequestAtomic ==
    [][WorkflowStep =>
          \/ ret'.stage = "done" /\ installed'.exists
          \/ ret'.stage # "done" /\ installed' = installed]_vars

----------------------------------------------------------------------------
\* the last operation raised an error to its caller (detect_current_patch and
\* install_patched_exe_linux have no outcome that raises)
RaisedError == ret.op \in {"verify", "materialize", "cleanup"} /\ ret.raised

\* a step of create_or_update_patched_exe
MaterializeStep == ret'.op = "materialize" /\ ~detected'.ran

\* a step of detect_current_patch
DetectStep == detected'.ran

(* C26 as stated: every I/O or file system failure inside verifyOriginal,  *)
(* materialize, detectCurrent, installOverOriginalLocation and cleanupAll  *)
(* steps a-c is returned as a structured result and not raised; the only   *)
(* failure that propagates as a raised error is the failed removal of the  *)
(* log directory in cleanup_all.  verify_clean_exe and                     *)
(* create_or_update_patched_exe raise BackupError.                         *)

C26_OnlyLogRemovalRaises ==
    RaisedError =>
        /\ ret.op = "cleanup"
        /\ "Failed to remove logs directory" \in Elements(ret.results.errors)

(* C26: detect_current_patch, install_patched_exe_linux and steps a-c of   *)
(* cleanup_all return every file system failure as a result (None, false,  *)
(* one entry of the error list per failure) and raise nothing, and         *)
(* cleanup_all raises exactly when the removal of the log directory fails; *)
(* verify_clean_exe raises for a missing original and                      *)
(* create_or_update_patched_exe raises for a missing original and for a    *)
(* failed copy, not for a failed delete of the old patched exe.            *)

C26_FailuresReturnedOrTyped ==
    [][/\ VerifyStep => (ret'.raised <=> ~original.exists)
       /\ MaterializeStep =>
             /\ ret'.raised =>
                   (~original.exists \/ faults' > faults)
             /\ (original.exists /\ faults' > faults
                 /\ ~ret'.unlink_failed) => ret'.raised
             /\ (ret'.unlink_failed /\ faults' = faults + 1) => ~ret'.raised
       /\ DetectStep =>
             /\ faults' > faults <=> detected'.read_failed
             /\ detected'.read_failed => detected'.val = None
       /\ InstallStep => (faults' > faults => ~ret'.value)
       /\ CleanupStep =>
             /\ Len(ret'.results.errors) = faults' - faults
             /\ ret'.raised <=>
                   "Failed to remove logs directory"
                       \in Elements(ret'.results.errors)
             /\ ret'.raised => (logDir /\ logDir')]_vars

\* a cleanup whose restore of the original failed: the failure is an entry of
\* the returned results, and the log directory was removed
C26_Witness ==
    /\ ret.op = "cleanup" /\ ~ret.raised
    /\ ret.results.errors = <<"Failed to restore original exe">>
    /\ ret.returned = Some(ret.results)
    /\ ret.results.logs_removed
    /\ backup.exists

----------------------------------------------------------------------------
\* the positions of the events e of handler h in a sequence of events
Positions(events, e, h) ==
    {i \in 1..Len(events) : events[i].e = e /\ events[i].h = h}

\* events has exactly one event e of handler h
Once(events, e, h) == Cardinality(Positions(events, e, h)) = 1

\* the position of that event
Position(events, e, h) == CHOOSE i \in Positions(events, e, h) : TRUE

\* a log record is written through handler h at a position of events from
\* position i to position j
WrittenBetween(events, h, i, j) ==
    \E m \in i..j : events[m].e = "emit" /\ h \in events[m].to

(* C27: in step (d) of cleanup_all every handler of the logger whose file  *)
(* is inside the log directory is flushed, closed and removed from the     *)
(* logger, in this order, before the removal of the directory is           *)
(* attempted, and no log record is written through such a handler between  *)
(* its close and the removal; when the log directory does not exist no     *)
(* handler is closed and logs_removed stays false.                         *)

C27_HandlersReleasedBeforeRemoval ==
    [][CleanupStep =>
        LET ev == ret'.events
        IN  /\ logDir =>
                /\ Once(ev, "rmtree", 0)
                /\ \A h \in InLogDir(handlers) :
                      /\ Once(ev, "flush", h)
                      /\ Once(ev, "close", h)
                      /\ Once(ev, "removeHandler", h)
                      /\ Position(ev, "flush", h) < Position(ev, "close", h)
                      /\ Position(ev, "close", h)
                            < Position(ev, "removeHandler", h)
                      /\ Position(ev, "removeHandler", h)
                            < Position(ev, "rmtree", 0)
                      /\ ~WrittenBetween(ev, h, Position(ev, "close", h),
                                         Position(ev, "rmtree", 0))
                /\ InLogDir(handlers') = {}
                /\ ~logHandler'
            /\ ~logDir =>
                /\ \A i \in 1..Len(ev) : ev[i].e = "emit"
                /\ handlers' = handlers
                /\ logHandler' = logHandler
                /\ ~ret'.results.logs_removed]_vars

\* a cleanup that closed two handlers on files in the log directory, the
\* second one after a record was logged through it alone, and removed the
\* directory
C27_Witness ==
    /\ ret.op = "cleanup" /\ ret.results.logs_removed
    /\ Once(ret.events, "close", 1)
    /\ Once(ret.events, "close", 2)
    /\ \E m \in Position(ret.events, "close", 1)..Position(ret.events, "close", 2) :
          ret.events[m].e = "emit" /\ ret.events[m].to = {2}
    /\ handlers = <<>>
    /\ ~logDir

----------------------------------------------------------------------------
(* C28: starting with a pristine original and no backup file, after any    *)
(* sequence of materialize, apply, install_patched_exe_linux (calls that   *)
(* fail part-way included) and cleanup_all (runs whose restore fails       *)
(* part-way included), whenever the backup file exists its content is      *)
(* byte-identical to the pristine original.  A backup copy that fails      *)
(* part-way leaves a truncated backup file, which no later call replaces.  *)

C28_BackupIsPristine == backup.exists => backup.data = pristine

----------------------------------------------------------------------------
(* C29: after any sequence of successful patch workflows for raids r1, r2, *)
(* ..., rn, on either platform, the game root holds exactly one launcher,  *)
(* the one of rn: the launchers of the earlier workflows were removed      *)
(* before the new one was created.  On Linux the workflow removes          *)
(* "DBFZ Raid *.lnk" files and creates .sh files, so the launchers of the  *)
(* earlier workflows stay.                                                 *)

C29_OneLauncherAfterWorkflow ==
    (/\ ret.op = "workflow" /\ ret.stage = "done" /\ ret.shortcut_created
     /\ faults = 0) =>
        launchers = {WorkflowLauncher(platform, ret.raid)}

----------------------------------------------------------------------------
(* C30: create_or_update_patched_exe called while the original is absent   *)
(* raises the missing-original error before it touches the patched exe: an *)
(* existing patched exe is neither deleted nor modified, and none is       *)
(* created.                                                                *)

C30_MaterializeWithoutOriginal ==
    [][(MaterializeStep /\ ~original.exists) =>
          /\ ret'.raised
          /\ ~ret'.unlink_failed
          /\ UNCHANGED <<original, installed, backup, launchers, faults>>]_vars

\* a materialize that raised, the patched exe of an earlier run being in
\* place, patched
C30_Witness ==
    /\ ret.op = "materialize" /\ ret.raised
    /\ ~original.exists
    /\ installed.exists
    /\ installed.data # pristine
    /\ MatchOffsets(installed.data) # {}

====
